---- MODULE Spec2Model ----
(***************************************************************************)
(* Model of examples/example_FreeSpacePropagation_FocusingGaussian.py, a   *)
(* linear script: laser/grid setup, one call of propagate_in_z, then the   *)
(* comparison with Gaussian-beam theory (e^-2 threshold, analytic waist,   *)
(* focal slice).                                                           *)
(*                                                                         *)
(* Number representation (exact arithmetic, no floating point):            *)
(*  - transverse lengths (w0, res, lambda0) are integers in a length unit; *)
(*  - lengths along z (zR, zMax, zf, z0) are integer multiples of pi times *)
(*    that unit, so zR = pi*w0^2/lambda0 is stored as w0^2 \div lambda0    *)
(*    (the inputs are chosen with lambda0 dividing w0^2);                  *)
(*  - a numpy.linspace grid of num points is stored as the numerators of   *)
(*    its samples over the common denominator num-1;                       *)
(*  - other rationals are pairs <<numerator, denominator>>;                *)
(*  - np.sqrt is not evaluated: w_z0 and w are stored squared;             *)
(*  - Field holds |Field[r, mid, zi]|^2, in units of the 1.0 that line 186 *)
(*    writes.                                                              *)
(***************************************************************************)
EXTENDS Integers, Sequences, FiniteSets, TLC

VARIABLES pc, assigned, lambda0, w0, res, n_pts, nz, mid,
          zR, zMax, zf, z0, Rz, w_z0sq, x, y, z,
          setupCalls, calls, Field, zi, thresh, w, idx

vars == <<pc, assigned, lambda0, w0, res, n_pts, nz, mid,
          zR, zMax, zf, z0, Rz, w_z0sq, x, y, z,
          setupCalls, calls, Field, zi, thresh, w, idx>>

(* ----------------------------- bounds ---------------------------------- *)
\* w0 ranges over 1..MaxW0
MaxW0 == 2
\* n_pts and nz range over the even numbers 2, .., 2*MaxHalf
MaxHalf == 2
\* largest intensity |Field|^2 a cell of the propagated field takes
MaxI == 8
\* the e^-2 threshold is checked on every field of at most MaxCells cells
MaxCells == 8

\* np.e**(-2) = 0.1353352832..., as the rational E2Num/E2Den.  No quotient
\* f/top of two intensities up to MaxI + 1 lies between 0.1353 and e^-2, so
\* every comparison with top*e^-2 comes out as in the script.
E2Num == 1353
E2Den == 10000

EvenSizes == {2 * h : h \in 1..MaxHalf}
W0Values == 1..MaxW0
LambdaValues == {1, 2}
ResValues == {1, 2}
Intensities == {0, 1, MaxI}

(* --------------------------- rationals --------------------------------- *)
RatEq(a, b) == a[1] * b[2] = b[1] * a[2]
RatSign(a) == IF a[1] = 0 THEN 0 ELSE IF (a[1] > 0) = (a[2] > 0) THEN 1 ELSE -1
\* a >= b for positive denominators
RatGeq(a, b) == a[1] * b[2] >= b[1] * a[2]

(* ------------------------ the script's formulas ------------------------ *)
\* zR = np.pi*w0**2/(lambda0), in units of pi
RayleighRange(w0_, lambda0_) == (w0_ * w0_) \div lambda0_

\* get_zr(laserParameters) of beamPropagator_source: the Rayleigh range
get_zr(w0_, lambda0_) == (w0_ * w0_) \div lambda0_

\* zMax = 2.0*3.0*zR
ZMaxOf(zR_) == 2 * 3 * zR_

\* zf = 3.0*zR
ZfOf(zR_) == 3 * zR_

RadiusOfCurvatureSwapped(z0_, zR_) == <<z0_ * (zR_ * zR_ + z0_ * z0_), zR_ * zR_>>
\* Rz = z0 * (1.0 + (zR/z0)**2)  =  (z0^2 + zR^2) / z0
RadiusOfCurvature(z0_, zR_) == <<z0_ * z0_ + zR_ * zR_, z0_>>

\* w_z0 = w0 * np.sqrt(1.0 + (z0/zR)**2), squared
WaistSqAt(w0_, z0_, zR_) == <<w0_ * w0_ * (zR_ * zR_ + z0_ * z0_), zR_ * zR_>>

\* np.linspace(start, stop, num): sample i is start + i*(stop-start)/(num-1);
\* the value stored is the sample times (num-1)
linspace(start, stop, num) ==
    [i \in 0..(num - 1) |-> start * (num - 1) + i * (stop - start)]

\* x = np.linspace(-res*n_pts/2, res*n_pts/2, n_pts)
TransverseGrid(res_, n_) == linspace(-((res_ * n_) \div 2), (res_ * n_) \div 2, n_)

\* z = np.linspace(0, zMax, nz)
ZGrid(zMax_, nz_) == linspace(0, zMax_, nz_)

\* the z returned by setup_propagate(inputBeam, X, Y, z, ...): passed through
setup_propagate_z(z_) == z_

(* ----------------------- propagate_in_z's result ----------------------- *)
AllFields(n_, m_) == [0..(n_ - 1) -> [0..(m_ - 1) -> Intensities]]

\* fields with the same transverse profile in every z slice
UniformFields(n_, m_) ==
    {[r \in 0..(n_ - 1) |-> [c \in 0..(m_ - 1) |-> col[r]]] :
        col \in [0..(n_ - 1) -> Intensities]}

\* Field = propagate_in_z(...): any |Field[:, mid, :]|^2 of shape (n_pts, nz);
\* every field of at most MaxCells cells, and the uniform ones above that
propagate_in_z(n_, m_) ==
    IF n_ * m_ <= MaxCells THEN AllFields(n_, m_) ELSE UniformFields(n_, m_)

(* ------------------------- e^-2 thresholding --------------------------- *)
\* f = np.abs(Field[:, mid, zi].copy())**2
Column(F, c) == [r \in DOMAIN F |-> F[r][c]]

\* top = np.max(f)
npmax(f) == CHOOSE v \in {f[r] : r \in DOMAIN f} : \A r \in DOMAIN f : f[r] <= v

\* f[f <= top*np.e**(-2)] = 0.0
MaskBelow(f, top) ==
    [r \in DOMAIN f |-> IF f[r] * E2Den <= top * E2Num THEN 0 ELSE f[r]]

\* f[f > top*np.e**(-2)] = 1.0
MaskAbove(f, top) ==
    [r \in DOMAIN f |-> IF f[r] * E2Den > top * E2Num THEN 1 ELSE f[r]]

ThresholdColumnSwapped(f) ==
    LET top == npmax(f) IN MaskBelow(MaskAbove(f, top), top)
\* lines 182-186: the two masked assignments, in order, on the same array
ThresholdColumn(f) ==
    LET top == npmax(f) IN MaskAbove(MaskBelow(f, top), top)

(* --------------------------- analytic waist ---------------------------- *)
ZcNoShift(z_, zf_, den) == z_
\* zc = z.copy() - zf   (numerators over den)
Zc(z_, zf_, den) == [i \in DOMAIN z_ |-> z_[i] - zf_ * den]

\* w = w0 * np.sqrt(1.0 + (zc/zR)**2), squared, as <<numerator, denominator>>
AnalyticWaistSq(w0_, zR_, zc_, den) ==
    [i \in DOMAIN zc_ |->
        <<w0_ * w0_ * ((zR_ * den) * (zR_ * den) + zc_[i] * zc_[i]),
          (zR_ * den) * (zR_ * den)>>]

(* ------------------------------ np.argmin ------------------------------ *)
RECURSIVE ArgminLastFrom(_, _, _, _)
ArgminLastFrom(a, n, i, best) ==
    IF i = n THEN best
    ELSE ArgminLastFrom(a, n, i + 1, IF a[i] <= a[best] THEN i ELSE best)
argminLast(a, n) == ArgminLastFrom(a, n, 1, 0)

RECURSIVE ArgminFrom(_, _, _, _)
ArgminFrom(a, n, i, best) ==
    IF i = n THEN best
    ELSE ArgminFrom(a, n, i + 1, IF a[i] < a[best] THEN i ELSE best)
\* np.argmin(a): scan from index 0, keep the first smallest entry
argmin(a, n) == ArgminFrom(a, n, 1, 0)

\* (z - zf)**2   (numerators over den^2)
SqDist(z_, zf_, den) ==
    [i \in DOMAIN z_ |-> (z_[i] - zf_ * den) * (z_[i] - zf_ * den)]

(* ------------------------------- state --------------------------------- *)
SetupNames == {"zR", "zMax", "zf", "z0", "Rz", "w_z0", "x", "y", "z",
               "inputBeam", "eta", "AS"}
AnalysisNames == {"thresh", "w", "idx"}

\* lines 30-39 and 60-64: the parameter literals
Init ==
    /\ pc = "beam"
    /\ assigned = {}
    /\ w0 \in W0Values
    /\ lambda0 \in {l \in LambdaValues : (w0 * w0) % l = 0}
    /\ res \in ResValues
    /\ n_pts \in EvenSizes
    /\ nz \in EvenSizes
    /\ mid = n_pts \div 2
    /\ zR = 0 /\ zMax = 0 /\ zf = 0 /\ z0 = 0
    /\ Rz = <<0, 1>> /\ w_z0sq = <<0, 1>>
    /\ x = <<>> /\ y = <<>> /\ z = <<>>
    /\ setupCalls = 0 /\ calls = 0
    /\ Field = <<>> /\ zi = 0 /\ thresh = <<>> /\ w = <<>> /\ idx = 0

\* lines 45-56
DeriveBeam ==
    /\ pc = "beam"
    /\ LET r == get_zr(w0, lambda0) IN
         /\ zR' = r
         /\ zMax' = ZMaxOf(r)
         /\ zf' = ZfOf(r)
         /\ z0' = -ZfOf(r)
         /\ Rz' = RadiusOfCurvature(-ZfOf(r), r)
         /\ w_z0sq' = WaistSqAt(w0, -ZfOf(r), r)
    /\ assigned' = assigned \cup {"zR", "zMax", "zf", "z0", "Rz", "w_z0"}
    /\ pc' = "grid"
    /\ UNCHANGED <<lambda0, w0, res, n_pts, nz, mid, x, y, z,
                   setupCalls, calls, Field, zi, thresh, w, idx>>

\* lines 68-71
CreateGrid ==
    /\ pc = "grid"
    /\ x' = TransverseGrid(res, n_pts)
    /\ y' = TransverseGrid(res, n_pts)
    /\ z' = ZGrid(zMax, nz)
    /\ assigned' = assigned \cup {"x", "y", "z"}
    /\ pc' = "input"
    /\ UNCHANGED <<lambda0, w0, res, n_pts, nz, mid, zR, zMax, zf, z0, Rz,
                   w_z0sq, setupCalls, calls, Field, zi, thresh, w, idx>>

\* lines 75-112: make_inputBeam, zR recomputed (line 83), focusing phase
MakeInputBeam ==
    /\ pc = "input"
    /\ zR' = RayleighRange(w0, lambda0)
    /\ assigned' = assigned \cup {"inputBeam"}
    /\ pc' = "setup"
    /\ UNCHANGED <<lambda0, w0, res, n_pts, nz, mid, zMax, zf, z0, Rz,
                   w_z0sq, x, y, z, setupCalls, calls, Field, zi, thresh,
                   w, idx>>

\* lines 119-136: ne, eta, k0 and the call of setup_propagate
SetupPropagate ==
    /\ pc = "setup"
    /\ setupCalls' = setupCalls + 1
    /\ z' = setup_propagate_z(z)
    /\ assigned' = assigned \cup {"eta", "AS"}
    /\ pc' = "propagate"
    /\ UNCHANGED <<lambda0, w0, res, n_pts, nz, mid, zR, zMax, zf, z0, Rz,
                   w_z0sq, x, y, calls, Field, zi, thresh, w, idx>>

PropagateTwice ==
    /\ pc = "propagate"
    /\ calls' = calls + 2
    /\ Field' \in propagate_in_z(n_pts, nz)
    /\ assigned' = assigned \cup {"Field"}
    /\ pc' = "explore"
    /\ UNCHANGED <<lambda0, w0, res, n_pts, nz, mid, zR, zMax, zf, z0, Rz,
                   w_z0sq, x, y, z, setupCalls, zi, thresh, w, idx>>
\* line 143: Field = propagate_in_z(AS, xFreq, yFreq, G, mask, X, Y, z, eta, k0)
Propagate ==
    /\ pc = "propagate"
    /\ calls' = calls + 1
    /\ Field' \in propagate_in_z(n_pts, nz)
    /\ assigned' = assigned \cup {"Field"}
    /\ pc' = "explore"
    /\ UNCHANGED <<lambda0, w0, res, n_pts, nz, mid, zR, zMax, zf, z0, Rz,
                   w_z0sq, x, y, z, setupCalls, zi, thresh, w, idx>>

\* lines 149-176: explorer and the first two panels (no script state changes)
Explore ==
    /\ pc = "explore"
    /\ pc' = "thresh"
    /\ UNCHANGED <<assigned, lambda0, w0, res, n_pts, nz, mid, zR, zMax, zf,
                   z0, Rz, w_z0sq, x, y, z, setupCalls, calls, Field, zi,
                   thresh, w, idx>>

\* line 180: thresh = np.zeros_like(Field[:, mid, :]); the loop starts at zi = 0
ThreshInit ==
    /\ pc = "thresh"
    /\ thresh' = [r \in DOMAIN Field |-> [c \in DOMAIN Field[r] |-> 0]]
    /\ zi' = 0
    /\ assigned' = assigned \cup {"thresh"}
    /\ pc' = "loop"
    /\ UNCHANGED <<lambda0, w0, res, n_pts, nz, mid, zR, zMax, zf, z0, Rz,
                   w_z0sq, x, y, z, setupCalls, calls, Field, w, idx>>

\* Field.shape[-1]
Slices == Cardinality(DOMAIN Field[0])

\* lines 181-187: one pass of the loop body
ThreshStep ==
    /\ pc = "loop"
    /\ zi < Slices
    /\ LET f == ThresholdColumn(Column(Field, zi)) IN
         thresh' = [r \in DOMAIN thresh |-> [thresh[r] EXCEPT ![zi] = f[r]]]
    /\ zi' = zi + 1
    /\ UNCHANGED <<pc, assigned, lambda0, w0, res, n_pts, nz, mid, zR, zMax,
                   zf, z0, Rz, w_z0sq, x, y, z, setupCalls, calls, Field, w,
                   idx>>

\* lines 190-216: the loop has ended; analytic waist overlay
Analytic ==
    /\ pc = "loop"
    /\ zi = Slices
    /\ LET r == RayleighRange(w0, lambda0)
           den == nz - 1 IN
         /\ zR' = r
         /\ zf' = ZfOf(r)
         /\ w' = AnalyticWaistSq(w0, r, Zc(z, ZfOf(r), den), den)
    /\ assigned' = assigned \cup {"w"}
    /\ pc' = "focal"
    /\ UNCHANGED <<lambda0, w0, res, n_pts, nz, mid, zMax, z0, Rz, w_z0sq,
                   x, y, z, setupCalls, calls, Field, zi, thresh, idx>>

\* lines 224-250: idx = np.argmin((z-zf)**2), focal slice and its plot
FocalSlice ==
    /\ pc = "focal"
    /\ idx' = argmin(SqDist(z, zf, nz - 1), nz)
    /\ assigned' = assigned \cup {"idx"}
    /\ pc' = "done"
    /\ UNCHANGED <<lambda0, w0, res, n_pts, nz, mid, zR, zMax, zf, z0, Rz,
                   w_z0sq, x, y, z, setupCalls, calls, Field, zi, thresh, w>>

Next ==
    \/ DeriveBeam
    \/ CreateGrid
    \/ MakeInputBeam
    \/ SetupPropagate
    \/ Propagate
    \/ Explore
    \/ ThreshInit
    \/ ThreshStep
    \/ Analytic
    \/ FocalSlice

Spec == Init /\ [][Next]_vars

(* ------------------------------ properties ----------------------------- *)
SetupPcs == {"beam", "grid", "input", "setup", "propagate"}
LoopFinished == pc \in {"focal", "done"} \/ (pc = "loop" /\ zi = Slices)

\* C1: propagate_in_z is invoked exactly once per run; the whole setup
\* (laser parameters, grids, input beam, eta, setup_propagate) is complete
\* before that call, and no step of the analytic comparison (thresh, w, idx)
\* has started before it has returned.
C1_ThreePhasesInOrder ==
    /\ calls \in {0, 1}
    /\ (calls = 0) <=> (pc \in SetupPcs)
    /\ (pc = "propagate" \/ calls = 1) => (SetupNames \subseteq assigned /\ setupCalls = 1)
    /\ calls = 0 => assigned \cap (AnalysisNames \cup {"Field"}) = {}
    /\ pc = "done" => (calls = 1 /\ AnalysisNames \subseteq assigned)

C1_Witness == pc = "done" /\ calls = 1 /\ AnalysisNames \subseteq assigned

\* C2 (as claimed): the z grid handed to propagate_in_z starts at 0 and ends
\* at 3*zR.
C2_GridEndsAtThreeZR ==
    pc = "propagate" => (z[0] = 0 /\ z[nz - 1] = 3 * zR * (nz - 1))

\* C3: for every zR > 0 the input plane z0 = -zf = -3*zR is negative, the
\* radius of curvature Rz equals -(10/3)*zR and is negative, and the focal
\* plane zf = 3*zR lies strictly inside (0, zMax).
C3_FocusingInput ==
    (pc # "beam" /\ zR > 0) =>
        /\ z0 = -zf /\ z0 = -3 * zR /\ z0 < 0
        /\ RatEq(Rz, <<-10 * zR, 3>>) /\ RatSign(Rz) = -1
        /\ 0 < zf /\ zf < zMax

C3_Witness == pc = "grid" /\ zR = 4 /\ Rz[1] = 160 /\ Rz[2] = -12

\* C4 (as claimed): neighbouring samples of the x and y grids are res apart.
C4_SpacingIsRes ==
    (pc \notin {"beam", "grid"}) =>
        \A i \in 0..(n_pts - 2) :
            /\ x[i + 1] - x[i] = res * (n_pts - 1)
            /\ y[i + 1] - y[i] = res * (n_pts - 1)

ColumnMax(c) == CHOOSE v \in {Field[r][c] : r \in DOMAIN Field} :
                    \A r \in DOMAIN Field : Field[r][c] <= v

\* C5: after the thresholding loop every thresh[r, zi] is 0 or 1, and is 1
\* exactly when |Field[r, mid, zi]|^2 > e^-2 * (maximum of its column); an
\* all-zero column stays 0 and a row attaining a positive maximum is 1.
C5_ThresholdMask ==
    LoopFinished =>
        \A c \in 0..(nz - 1) : \A r \in 0..(n_pts - 1) :
            /\ thresh[r][c] \in {0, 1}
            /\ (thresh[r][c] = 1) <=> (Field[r][c] * E2Den > ColumnMax(c) * E2Num)
            /\ ColumnMax(c) = 0 => thresh[r][c] = 0
            /\ (ColumnMax(c) > 0 /\ Field[r][c] = ColumnMax(c)) => thresh[r][c] = 1

\* a column whose cut-off max*e^-2 is at least 1 with a non-zero cell below
\* it, next to an all-zero column
C5_Witness ==
    /\ LoopFinished
    /\ \E c \in 0..(nz - 1) :
          /\ ColumnMax(c) * E2Num >= E2Den
          /\ \E r \in 0..(n_pts - 1) : Field[r][c] = 1 /\ thresh[r][c] = 0
          /\ \E r \in 0..(n_pts - 1) : thresh[r][c] = 1
    /\ \E c \in 0..(nz - 1) : ColumnMax(c) = 0

AbsDist(i) == IF z[i] >= zf * (nz - 1) THEN z[i] - zf * (nz - 1)
              ELSE zf * (nz - 1) - z[i]

\* C6: idx is the lowest index among the z samples nearest to zf; on the
\* uniform grid of nz points over [0, 2*zf] with nz even, idx = nz/2 - 1 and
\* z[idx] # zf.
C6_FocalIndex ==
    pc = "done" =>
        /\ idx \in 0..(nz - 1)
        /\ \A i \in 0..(nz - 1) : AbsDist(idx) <= AbsDist(i)
        /\ \A i \in 0..(nz - 1) : i < idx => AbsDist(i) > AbsDist(idx)
        /\ (nz % 2 = 0 /\ z = linspace(0, 2 * zf, nz)) =>
              (idx = (nz \div 2) - 1 /\ z[idx] # zf * (nz - 1))

C6_Witness ==
    /\ pc = "done" /\ nz = 4 /\ idx = 1
    /\ AbsDist(2) = AbsDist(1)
    /\ z = linspace(0, 2 * zf, nz)

\* C7: the analytic waist squared equals w_z0^2 = 10*w0^2 at the first grid
\* sample z = 0, is at least w0^2 at every sample, and is the same at samples
\* mirrored about zf.
C7_AnalyticWaist ==
    (pc \in {"focal", "done"}) =>
        /\ z[0] = 0
        /\ RatEq(w[0], w_z0sq)
        /\ RatEq(w[0], <<10 * w0 * w0, 1>>)
        /\ \A i \in 0..(nz - 1) : RatGeq(w[i], <<w0 * w0, 1>>)
        /\ \A i, j \in 0..(nz - 1) :
              (z[i] - zf * (nz - 1) = zf * (nz - 1) - z[j]) => RatEq(w[i], w[j])

C7_Witness ==
    /\ pc = "done" /\ nz = 4
    /\ RatEq(w[0], <<10 * w0 * w0, 1>>)
    /\ z[1] - zf * (nz - 1) = zf * (nz - 1) - z[2]
    /\ RatEq(w[1], w[2]) /\ ~RatEq(w[1], w[0])

====
